---- MODULE Spec2Model ----
(***************************************************************************)
(* flatten_dictionary of src/src/speckle_revit_graph/utils/helpers.py,     *)
(* executed one loop iteration, one call and one return at a time.         *)
(*                                                                         *)
(* A Python str is a sequence of one-character strings, so that replace    *)
(* and + are computed and not assumed.  A dict is the sequence of its      *)
(* entries in insertion order, keys pairwise distinct; an entry is         *)
(*   [k |-> key, isdict |-> BOOLEAN, val |-> leaf value, sub |-> dict]     *)
(* with sub = <<>> for a leaf and val = 0 for a nested dict.               *)
(***************************************************************************)
EXTENDS Integers, Sequences, FiniteSets

VARIABLES d, sep, stack, result, pc, calls, warnings, d0

vars == <<d, sep, stack, result, pc, calls, warnings, d0>>

\* ------------------------------------------------------------ inputs

\* Total number of entries (leaves and nested dicts) of an input.
MaxSize == 3

\* Keys of the inputs: empty, plain, with a space, with the separator in it.
Keys ==
  { <<>>, <<"a">>, <<"b">>, <<"a", " ", "b">>, <<"a", "_", "b">> }

\* Separators the caller passes: the default, another one and the empty one.
Seps == { <<"_">>, <<".">>, <<>> }

Leaf(k, v) == [k |-> k, isdict |-> FALSE, val |-> v, sub |-> <<>>]

Dict(k, m) == [k |-> k, isdict |-> TRUE, val |-> 0, sub |-> m]

KeysOf(m) == { m[j].k : j \in DOMAIN m }

RECURSIVE ShapesOfSize(_)
\* Every dict with exactly n entries in all, nested ones included, the keys of
\* one dict pairwise distinct; the leaf values are yet to be given.
ShapesOfSize(n) ==
  IF n = 0 THEN { <<>> }
  ELSE
    UNION { { <<Leaf(k, 0)>> \o rest : k \in Keys \ KeysOf(rest) } :
            rest \in ShapesOfSize(n - 1) }
    \cup
    UNION { UNION { { <<Dict(k, s)>> \o rest :
                        k \in Keys \ KeysOf(rest), s \in ShapesOfSize(j) } :
                    rest \in ShapesOfSize(n - 1 - j) } :
            j \in 0 .. (n - 1) }

RECURSIVE Size(_)
Size(m) == IF m = <<>> THEN 0 ELSE 1 + Size(Head(m).sub) + Size(Tail(m))

RECURSIVE Label(_, _)
\* The code never looks inside a leaf value (line 7 asks only whether it is a
\* dict), so each leaf holds a value of its own, its place in the depth-first
\* order of the entries: which leaf an entry of the result came from shows.
Label(m, base) ==
  IF m = <<>> THEN <<>>
  ELSE LET e == Head(m)
       IN  << IF e.isdict THEN Dict(e.k, Label(e.sub, base + 1))
                          ELSE Leaf(e.k, base + 1) >>
           \o Label(Tail(m), base + 1 + Size(e.sub))

\* The inputs the specification and the claims name.
ExampleNested == << Dict(<<"a">>, << Leaf(<<"b">>, 1), Leaf(<<"c">>, 2) >>) >>

ExampleNestedFirst ==
  << Dict(<<"a">>, << Leaf(<<"b">>, 1) >>), Leaf(<<"a", "_", "b">>, 2) >>

ExampleNestedLast ==
  << Leaf(<<"a", "_", "b">>, 2), Dict(<<"a">>, << Leaf(<<"b">>, 1) >>) >>

ExampleEmpty == << Dict(<<"a">>, <<>>) >>

Inputs ==
  UNION { { Label(m, 0) : m \in ShapesOfSize(n) } : n \in 0 .. MaxSize }
  \cup { ExampleNested, ExampleNestedFirst, ExampleNestedLast, ExampleEmpty }

\* ----------------------------------------------------------- strings

RECURSIVE Replace(_, _, _)
\* str.replace(old, new) for a one-character old.
Replace(s, old, new) ==
  IF s = <<>> THEN <<>>
  ELSE (IF Head(s) = old THEN new ELSE <<Head(s)>>) \o Replace(Tail(s), old, new)

\* Line 4: k = k.replace(" ", "_")
NormKey(k) == Replace(k, " ", <<"_">>)

\* The child before the parent.
NewKey_swapped(parent_key, s, k) ==
  IF parent_key # <<>> THEN k \o s \o parent_key ELSE k

\* The separator put before every key, the outermost ones too.
NewKey_always(parent_key, s, k) == parent_key \o s \o k

\* Line 5: new_key = parent_key + sep + k if parent_key else k
NewKey(parent_key, s, k) ==
  IF parent_key # <<>> THEN parent_key \o s \o k ELSE k

\* Every value taken for a leaf.
IsInstanceDict_never(e) == FALSE

\* An empty dict taken for a leaf.
IsInstanceDict_nonempty(e) == e.isdict /\ e.sub # <<>>

\* Line 7: isinstance(v, dict)
IsInstanceDict(e) == e.isdict

RECURSIVE DictOf_firstwins(_)
\* The first pair of a key kept, the later ones dropped.
DictOf_firstwins(items) ==
  IF items = <<>> THEN <<>>
  ELSE
    LET n     == Len(items)
        front == DictOf_firstwins(SubSeq(items, 1, n - 1))
        last  == items[n]
    IN  IF last.k \in KeysOf(front) THEN front ELSE Append(front, last)

RECURSIVE DictOf(_)
\* Line 11: dict(items); a later pair replaces the value of an earlier one
\* with the same key, which keeps its place.
DictOf(items) ==
  IF items = <<>> THEN <<>>
  ELSE
    LET n     == Len(items)
        front == DictOf(SubSeq(items, 1, n - 1))
        last  == items[n]
    IN  IF last.k \in KeysOf(front)
        THEN [j \in DOMAIN front |-> IF front[j].k = last.k THEN last ELSE front[j]]
        ELSE Append(front, last)

\* ------------------------------------------------------------- state

RECURSIVE MappingAt(_, _)
\* The dict a frame iterates: the one reached from m through the entries path.
MappingAt(m, path) ==
  IF path = <<>> THEN m ELSE MappingAt(m[Head(path)].sub, Tail(path))

RECURSIVE SetKeyAt(_, _, _, _)
\* m with the key of entry idx of the dict at path set to k.
SetKeyAt(m, path, idx, k) ==
  IF path = <<>> THEN [m EXCEPT ![idx].k = k]
  ELSE [m EXCEPT ![Head(path)].sub = SetKeyAt(m[Head(path)].sub, Tail(path), idx, k)]

\* The replaced key written back into the dict under iteration.
RebindKey_inplace(m, path, idx, k) == SetKeyAt(m, path, idx, k)

\* Line 4 binds the local name k; the dict under iteration keeps its key.
RebindKey(m, path, idx, k) == m

\* The loop steps over a pair.
NextIndex_skip(i) == i + 2

\* Line 3: the for loop takes the next pair of d.items().
NextIndex(i) == i + 1

\* A call's locals: d (as a path into the input), parent_key, sep, the
\* position of the for loop, k, new_key and items.
Frame(path, parent_key, s) ==
  [ path |-> path, parent_key |-> parent_key, sep |-> s, i |-> 0,
    k |-> <<>>, new_key |-> <<>>, items |-> <<>> ]

Top == stack[Len(stack)]

Init ==
  /\ d \in Inputs
  /\ d0 = d
  /\ sep \in Seps
  /\ stack = << Frame(<<>>, <<>>, sep) >>
  /\ result = <<>>
  /\ pc = "running"
  /\ calls = 0
  /\ warnings = <<>>

\* Lines 3-5 and 9-10: an iteration whose value is not a dict.
VisitLeaf ==
  /\ pc = "running"
  /\ Top.i < Len(MappingAt(d, Top.path))
  /\ LET f       == Top
         e       == MappingAt(d, f.path)[f.i + 1]
         k       == NormKey(e.k)
         new_key == NewKey(f.parent_key, f.sep, k)
     IN  /\ ~IsInstanceDict(e)
         /\ stack' = [stack EXCEPT ![Len(stack)] =
                        [f EXCEPT !.i = NextIndex(f.i), !.k = k, !.new_key = new_key,
                                  !.items = Append(f.items, [e EXCEPT !.k = new_key])]]
         /\ d' = RebindKey(d, f.path, f.i + 1, k)
  /\ UNCHANGED <<sep, result, pc, calls, warnings, d0>>

\* Lines 3-5 and 7-8: an iteration whose value is a dict; the recursive call.
VisitDict ==
  /\ pc = "running"
  /\ Top.i < Len(MappingAt(d, Top.path))
  /\ LET f       == Top
         e       == MappingAt(d, f.path)[f.i + 1]
         k       == NormKey(e.k)
         new_key == NewKey(f.parent_key, f.sep, k)
     IN  /\ IsInstanceDict(e)
         /\ stack' = Append(
                       [stack EXCEPT ![Len(stack)] =
                          [f EXCEPT !.i = NextIndex(f.i), !.k = k, !.new_key = new_key]],
                       Frame(Append(f.path, f.i + 1), new_key, f.sep))
         /\ d' = RebindKey(d, f.path, f.i + 1, k)
  /\ calls' = calls + 1
  /\ UNCHANGED <<sep, result, pc, warnings, d0>>

\* Lines 11 and 8: a recursive call returns dict(items) and the caller
\* extends its items with the pairs of it.
ReturnNested ==
  /\ pc = "running"
  /\ Len(stack) > 1
  /\ Top.i = Len(MappingAt(d, Top.path))
  /\ LET ret    == DictOf(Top.items)
         caller == stack[Len(stack) - 1]
     IN  stack' = [SubSeq(stack, 1, Len(stack) - 1) EXCEPT ![Len(stack) - 1] =
                     [caller EXCEPT !.items = caller.items \o ret]]
  /\ UNCHANGED <<d, sep, result, pc, calls, warnings, d0>>

\* Line 11: the outermost call returns dict(items).
ReturnTop ==
  /\ pc = "running"
  /\ Len(stack) = 1
  /\ Top.i = Len(MappingAt(d, Top.path))
  /\ result' = DictOf(Top.items)
  /\ stack' = <<>>
  /\ pc' = "done"
  /\ UNCHANGED <<d, sep, calls, warnings, d0>>

Next == VisitLeaf \/ VisitDict \/ ReturnNested \/ ReturnTop

Spec == Init /\ [][Next]_vars

\* The interpreter runs a call to its end: no step that can be taken is
\* put off for ever.
FairSpec == Spec /\ WF_vars(Next)

\* ------------------------------------------------- what the claims speak of

Done == pc = "done"

HasSpace(k) == \E j \in DOMAIN k : k[j] = " "

RECURSIVE AllKeys(_)
\* The keys of m at every nesting depth.
AllKeys(m) ==
  IF m = <<>> THEN {}
  ELSE {Head(m).k} \cup AllKeys(Head(m).sub) \cup AllKeys(Tail(m))

RECURSIVE LeafSeq(_, _)
\* The non-dict leaves of m in depth-first order, each with the keys on the
\* path to it.
LeafSeq(m, prefix) ==
  IF m = <<>> THEN <<>>
  ELSE LET e == Head(m)
           p == Append(prefix, e.k)
       IN  (IF e.isdict THEN LeafSeq(e.sub, p) ELSE << [path |-> p, val |-> e.val] >>)
           \o LeafSeq(Tail(m), prefix)

Leaves == LeafSeq(d0, <<>>)

RECURSIVE Join(_, _)
\* s.join(path)
Join(path, s) ==
  IF Len(path) = 0 THEN <<>>
  ELSE IF Len(path) = 1 THEN path[1]
  ELSE Join(SubSeq(path, 1, Len(path) - 1), s) \o s \o path[Len(path)]

RECURSIVE CodeKey(_, _)
\* The key lines 4 and 5 give the entry reached through path, call after call.
CodeKey(path, s) ==
  IF path = <<>> THEN <<>>
  ELSE NewKey(CodeKey(SubSeq(path, 1, Len(path) - 1), s), s,
              NormKey(path[Len(path)]))

RECURSIVE Depth(_)
\* The nesting depth of m: 1 for a dict that holds no dict.
Depth(m) ==
  IF m = <<>> THEN 1
  ELSE LET below == IF Head(m).isdict THEN 1 + Depth(Head(m).sub) ELSE 1
           rest  == Depth(Tail(m))
       IN  IF below > rest THEN below ELSE rest

RECURSIVE NumDicts(_)
\* The dict-valued entries of m, at every depth.
NumDicts(m) ==
  IF m = <<>> THEN 0
  ELSE (IF Head(m).isdict THEN 1 + NumDicts(Head(m).sub) ELSE 0) + NumDicts(Tail(m))

\* Two dicts are equal whatever the order of their entries.
SameMapping(m1, m2) ==
  /\ Len(m1) = Len(m2)
  /\ \A j \in DOMAIN m1 : \E i \in DOMAIN m2 : m1[j] = m2[i]
  /\ \A i \in DOMAIN m2 : \E j \in DOMAIN m1 : m1[j] = m2[i]

PlainKeys == \A k \in AllKeys(d0) : k # <<>> /\ ~HasSpace(k)

NoSpaces == \A k \in AllKeys(d0) : ~HasSpace(k)

Flat == \A j \in DOMAIN d0 : ~d0[j].isdict

\* Two distinct leaf paths flatten to one key.
Collision ==
  \E i, j \in DOMAIN Leaves :
    i < j /\ CodeKey(Leaves[i].path, sep) = CodeKey(Leaves[j].path, sep)

\* ------------------------------------------------------------ claims

\* C1: for an input whose keys are non-empty and without spaces and whose leaf
\* paths join to pairwise distinct strings, the result has exactly one entry
\* per non-dict leaf, keyed by the path's keys joined by sep and holding the
\* leaf's value; {"a": {"b": 1, "c": 2}} with "_" gives {"a_b": 1, "a_c": 2}.
C1_OneEntryPerLeaf ==
  Done =>
    /\ ( /\ PlainKeys
         /\ \A i, j \in DOMAIN Leaves :
              Join(Leaves[i].path, sep) = Join(Leaves[j].path, sep) => i = j )
       => /\ Len(result) = Len(Leaves)
          /\ \A i \in DOMAIN Leaves :
               \E j \in DOMAIN result :
                 result[j] = Leaf(Join(Leaves[i].path, sep), Leaves[i].val)
    /\ (d0 = ExampleNested /\ sep = <<"_">>)
       => SameMapping(result, << Leaf(<<"a", "_", "b">>, 1), Leaf(<<"a", "_", "c">>, 2) >>)

C1_Witness ==
  /\ Done
  /\ PlainKeys
  /\ Len(Leaves) >= 2
  /\ Depth(d0) >= 2
  /\ \A i, j \in DOMAIN Leaves :
       Join(Leaves[i].path, sep) = Join(Leaves[j].path, sep) => i = j

\* C2: every space of a key, at every depth, is replaced by the separator the
\* caller passed (stated for inputs without empty keys).
C2_SpacesBecomeSep ==
  (Done /\ \A k \in AllKeys(d0) : k # <<>>) =>
    \A i \in DOMAIN Leaves :
      \E j \in DOMAIN result :
        result[j].k =
          Join([n \in DOMAIN Leaves[i].path |-> Replace(Leaves[i].path[n], " ", sep)], sep)

\* C3: under a key p, whatever string p is, the flattened key of a key k is
\* the flattened key of p, then sep, then k, with the caller's sep at every
\* depth (stated for inputs whose keys hold no space).
C3_ParentSepChild ==
  NoSpaces =>
    \A j \in 2 .. Len(stack) :
      stack[j].i > 0 =>
        stack[j].new_key =
          stack[j - 1].new_key \o sep \o MappingAt(d0, stack[j].path)[stack[j].i].k

\* C4: a single-level dict whose keys hold no space is returned equal to
\* itself: same keys, same values, same number of entries.
C4_FlatUnchanged == (Done /\ Flat /\ NoSpaces) => SameMapping(result, d0)

C4_Witness == Done /\ Flat /\ NoSpaces /\ Len(d0) >= 2

\* C5: when leaf paths flatten to one key, the result holds under that key the
\* value of the last of them in depth-first order; {"a": {"b": 1}, "a_b": 2}
\* gives a_b = 2 and {"a_b": 2, "a": {"b": 1}} gives a_b = 1.
C5_LastWriteWins ==
  Done =>
    /\ \A j \in DOMAIN result :
         LET hits == { i \in DOMAIN Leaves : CodeKey(Leaves[i].path, sep) = result[j].k }
         IN  /\ hits # {}
             /\ \A i \in hits :
                  (\A h \in hits : h <= i) => result[j].val = Leaves[i].val
    /\ \A i, j \in DOMAIN result : result[i].k = result[j].k => i = j
    /\ (d0 = ExampleNestedFirst /\ sep = <<"_">>)
       => result = << Leaf(<<"a", "_", "b">>, 2) >>
    /\ (d0 = ExampleNestedLast /\ sep = <<"_">>)
       => result = << Leaf(<<"a", "_", "b">>, 1) >>

C5_Witness ==
  /\ Done
  /\ \E i, j \in DOMAIN Leaves :
       /\ i < j
       /\ Len(Leaves[i].path) # Len(Leaves[j].path)
       /\ CodeKey(Leaves[i].path, sep) = CodeKey(Leaves[j].path, sep)
       /\ \A h \in DOMAIN Leaves :
            CodeKey(Leaves[h].path, sep) = CodeKey(Leaves[j].path, sep) => h <= j
       /\ \E n \in DOMAIN result : result[n].val = Leaves[j].val

\* C6: whenever two distinct nested paths flatten to one key, the call leaves
\* a warning record of the collision beside its result (stated for inputs
\* whose keys are non-empty and hold no space).
C6_CollisionWarned == (Done /\ PlainKeys /\ Collision) => Len(warnings) > 0

\* C7: no value of the returned dict is itself a dict, whatever the nesting
\* depth of the input and the separator.
C7_SingleLevel == Done => \A j \in DOMAIN result : ~result[j].isdict

C7_Witness == Done /\ Depth(d0) >= 3 /\ Len(result) >= 1

\* C8: the input and every dict nested in it have, at every step of the call
\* and after it, the keys and values they had before it.
C8_InputUntouched == d = d0

C8_Witness ==
  /\ Done
  /\ Depth(d0) >= 2
  /\ \E i \in DOMAIN Leaves :
       Len(Leaves[i].path) >= 2 /\ HasSpace(Leaves[i].path[Len(Leaves[i].path)])

\* C9: the call returns, having made exactly one recursive call per dict-valued
\* entry of the input and never more calls deep than the input is nested.
C9_Terminates ==
  /\ <>Done
  /\ [](Done => calls = NumDicts(d0))
  /\ [](Len(stack) <= Depth(d0))

C9_Witness == Done /\ calls = 2 /\ Depth(d0) = 3

\* C10: a key whose value is an empty dict, at any depth, gives no entry: the
\* keys of the result are those of the non-dict leaves, and {"a": {}} gives {}.
C10_EmptyDictDropped ==
  Done =>
    /\ KeysOf(result) = { CodeKey(Leaves[i].path, sep) : i \in DOMAIN Leaves }
    /\ (d0 = ExampleEmpty => result = <<>>)

C10_Witness ==
  /\ Done
  /\ Len(Leaves) >= 1
  /\ \E j \in DOMAIN d0 :
       /\ d0[j].isdict
       /\ \E n \in DOMAIN d0[j].sub : d0[j].sub[n].isdict /\ d0[j].sub[n].sub = <<>>

====
